---- MODULE Spec2Model ----
(***************************************************************************)
(* The Devote protocol state layer of go-etherzero (core/types/devote      *)
(* protocol): six tries (cycle, cache, vote, masternode, minerRolling,     *)
(* voteCnt) behind one manager, DevoteProtocol, with registration,         *)
(* delegation, rotation accounting, snapshot/revert and the combined root. *)
(*                                                                         *)
(* Byte strings are sequences of bytes (0..255).  A trie is the finite map *)
(* it stores: a function from keys to non-empty values.  The six tries of  *)
(* a manager are a record with the field names of the Go struct.           *)
(***************************************************************************)
EXTENDS Integers, Sequences, FiniteSets, TLC

\* ------------------------------------------------------------------ bounds

\* Number of distinct account addresses in play.
NAddr == 2

\* Width of an address in bytes (common.AddressLength is 20; the width only
\* fixes where a cache key splits into masternode and delegator).
AddressLength == 2

\* Largest mint count a rotation counter reaches.
MaxCnt == 2

\* Longest witness list handed to SetWitnesses.
MaxWitnesses == 1

\* ------------------------------------------------------- program constants

CycleInterval == 3600

\* Width of the big-endian cycle index and mint count.
Uint64Bytes == 8

\* ------------------------------------------------------------ byte strings

\* The nil / empty byte slice; what TryGet returns for an absent key.
Nil == <<>>

\* common.Address values: AddressLength bytes, told apart by the last byte.
Address(n) == [i \in 1..AddressLength |-> IF i = AddressLength THEN n ELSE 0]

Addr == {Address(n) : n \in 1..NAddr}

\* A masternode ID string that is not the byte string of any address.
OtherID == <<105, 100, 48>>

\* masternode.Masternode values handed to Register: the ID is either the
\* byte string of the account itself or an identifier of another shape.
MasternodesOf(A) ==
  {[ID |-> a, Account |-> a] : a \in A}
    \cup {[ID |-> OtherID, Account |-> a] : a \in A}

\* The addresses used under speculative execution.
SnapAddr == {Address(1), Address(2)}

\* bytes.Compare(a, b) < 0: lexicographic order on byte strings.
BytesLess(a, b) ==
  LET n == IF Len(a) < Len(b) THEN Len(a) ELSE Len(b)
      differ == {i \in 1..n : a[i] # b[i]}
  IN IF differ = {}
       THEN Len(a) < Len(b)
       ELSE LET i == CHOOSE x \in differ : \A y \in differ : x <= y
            IN a[i] < b[i]

\* binary.BigEndian.PutUint64 into a buffer of width bytes.
RECURSIVE PutUint(_, _)
PutUint(n, width) ==
  IF width = 0 THEN <<>> ELSE PutUint(n \div 256, width - 1) \o <<n % 256>>

PutUint64(n) == PutUint(n, Uint64Bytes)

\* binary.BigEndian.Uint64.
RECURSIVE Uint64(_)
Uint64(b) ==
  IF Len(b) = 0
    THEN 0
    ELSE Uint64(SubSeq(b, 1, Len(b) - 1)) * 256 + b[Len(b)]

\* rlp.EncodeToBytes of a byte array: one byte below 0x80 is its own
\* encoding, any other string of up to 55 bytes gets the prefix 0x80+len.
RlpString(b) ==
  IF Len(b) = 1 /\ b[1] < 128 THEN b ELSE <<128 + Len(b)>> \o b

RECURSIVE RlpConcat(_)
RlpConcat(items) ==
  IF Len(items) = 0
    THEN <<>>
    ELSE RlpString(Head(items)) \o RlpConcat(Tail(items))

\* The big-endian bytes of n > 0 without leading zeros (rlp putint).
RECURSIVE PutInt(_)
PutInt(n) == IF n = 0 THEN <<>> ELSE PutInt(n \div 256) \o <<n % 256>>

\* Mutant: the length of a long payload is written into one byte.
RlpListOneLengthByte(items) ==
  LET payload == RlpConcat(items)
  IN IF Len(payload) <= 55
       THEN <<192 + Len(payload)>> \o payload
       ELSE <<248, Len(payload) % 256>> \o payload

\* rlp.EncodeToBytes of a list of addresses: prefix 0xc0+len for a payload of
\* up to 55 bytes, else 0xf7+n and the n big-endian bytes of the length.
RlpList(items) ==
  LET payload == RlpConcat(items)
      size == PutInt(Len(payload))
  IN IF Len(payload) <= 55
       THEN <<192 + Len(payload)>> \o payload
       ELSE <<247 + Len(size)>> \o size \o payload

\* rlp Stream.readKind over the bytes b: the kind of the value at the head of
\* b, where its content starts and how long it is.  Sizes are canonical: no
\* length prefix for a single byte below 0x80, the long form only from 56
\* bytes on and without leading zeros, and the content within the input.
RlpKind(b) ==
  LET h == b[1]
      lenlen == IF h < 192 THEN h - 183 ELSE h - 247
      long == h \in 184..191 \/ h >= 248
      start == IF h < 128 THEN 1 ELSE IF long THEN 2 + lenlen ELSE 2
      size == IF h < 128 THEN 1
              ELSE IF h < 184 THEN h - 128
              ELSE IF h < 192 \/ h >= 248
                     THEN (IF 1 + lenlen <= Len(b)
                             THEN Uint64(SubSeq(b, 2, 1 + lenlen)) ELSE 0)
              ELSE h - 192
      canonical ==
        /\ (h \in 128..183 /\ size = 1 /\ Len(b) >= 2) => b[2] >= 128
        /\ long => (1 + lenlen <= Len(b) /\ b[2] # 0 /\ size >= 56)
  IN [kind |-> IF h < 128 THEN "Byte" ELSE IF h < 192 THEN "String" ELSE "List",
      start |-> start, size |-> size,
      ok |-> canonical /\ start + size - 1 <= Len(b)]

\* rlp decoding of the items of a list payload into []common.Address.  An
\* item decodes into the fixed-size array only when it is a string of
\* AddressLength bytes, so the items that decode are all as wide as an
\* encoded address and item i is the i-th chunk of that width.  <<w, TRUE>>
\* when the payload decodes to the addresses w, <<<<>>, FALSE>> when
\* decoding fails.
RlpDecodeAddresses(payload) ==
  LET width == Len(RlpString(Address(1)))
      n == Len(payload) \div width
      chunk(i) == SubSeq(payload, (i - 1) * width + 1, i * width)
      decodes(i) ==
        LET k == RlpKind(chunk(i))
        IN /\ k.ok /\ k.kind # "List"
           /\ k.size = AddressLength
           /\ k.start + k.size - 1 = width
  IN IF Len(payload) = n * width /\ \A i \in 1..n : decodes(i)
       THEN <<[i \in 1..n |-> SubSeq(chunk(i), RlpKind(chunk(i)).start, width)],
              TRUE>>
       ELSE <<<<>>, FALSE>>

\* rlp.DecodeBytes(b, &witnesses) with witnesses a []common.Address: b is one
\* list and nothing after it.
RlpDecodeBytes(b) ==
  IF Len(b) = 0
    THEN <<<<>>, FALSE>>
    ELSE LET k == RlpKind(b)
         IN IF k.ok /\ k.kind = "List" /\ k.start + k.size - 1 = Len(b)
              THEN RlpDecodeAddresses(SubSeq(b, k.start, Len(b)))
              ELSE <<<<>>, FALSE>>

\* []byte("witness")
WitnessKey == <<119, 105, 116, 110, 101, 115, 115>>

\* The witness lists handed to SetWitnesses.
WitnessLists(A) == UNION {[1..n -> A] : n \in 0..MaxWitnesses}

\* Lengths of witness lists whose RLP payload is longer than 55 bytes and
\* longer than 255 bytes.
LongListLen == 19
LongerListLen == 86

\* The witness list of n addresses, the addresses of Addr in turn.
WitnessCycle(n) == [i \in 1..n |-> Address(1 + (i % NAddr))]

LongWitnessLists == {WitnessCycle(LongListLen), WitnessCycle(LongerListLen)}

\* Block timestamps: the last second of cycle 0 and the last second of
\* cycle 1, one CycleInterval apart.
Times == {CycleInterval - 1, 2 * CycleInterval - 1}

\* ------------------------------------------------------------------- tries

EmptyTrie == <<>>

\* Trie.TryGet: the value stored under key, nil when there is none.
TryGet(t, key) == IF key \in DOMAIN t THEN t[key] ELSE Nil

\* Trie.TryDelete: removing an absent key is not an error.
TryDelete(t, key) == [k \in (DOMAIN t) \ {key} |-> t[k]]

\* Trie.TryUpdate: an empty value deletes the key.
TryUpdate(t, key, value) ==
  IF Len(value) = 0
    THEN TryDelete(t, key)
    ELSE [k \in (DOMAIN t) \cup {key} |-> IF k = key THEN value ELSE t[k]]

\* The keys of S in ascending byte order.
RECURSIVE SortKeys(_)
SortKeys(S) ==
  IF S = {}
    THEN <<>>
    ELSE LET m == CHOOSE x \in S : \A y \in S : ~BytesLess(y, x)
         IN <<m>> \o SortKeys(S \ {m})

\* trie.NewIterator(t.NodeIterator(start)): the entries of t whose key is not
\* below start, in ascending key order, as the trie was when the iterator was
\* made.  Every key that has start as a prefix is among them.
Iterate(t, start) ==
  LET keys == SortKeys({k \in DOMAIN t : ~BytesLess(k, start)})
  IN [i \in 1..Len(keys) |-> [Key |-> keys[i], Value |-> t[keys[i]]]]

\* iter.Next() on a fresh iterator: there is an entry at or after start.
HasNext(t, start) == \E k \in DOMAIN t : ~BytesLess(k, start)

\* ------------------------------------------------------------------ errors

ErrNil == "nil"
ErrInvalidDelegate == "invalid masternode to delegate"
ErrInvalidUnDelegate == "invalid masternode to undelegate"
ErrMismatch == "mismatch masternode to undelegate"
ErrStorage == "storage error"
ErrMissingNode == "missing trie node"

\* ----------------------------------------------------------------- manager

\* NewDevoteProtocol: six tries opened at the zero root.
NewDevoteProtocol ==
  [cycleTrie |-> EmptyTrie, cacheTrie |-> EmptyTrie, voteTrie |-> EmptyTrie,
   masternodeTrie |-> EmptyTrie, minerRollingTrie |-> EmptyTrie,
   voteCntTrie |-> EmptyTrie]

\* Mutant: an ID that is registered keeps its first account.
RegisterKeepsFirst(m, masternode) ==
  [d |-> IF masternode.ID \in DOMAIN m.masternodeTrie
           THEN m
           ELSE [m EXCEPT !.masternodeTrie =
                            TryUpdate(@, masternode.ID, masternode.Account)],
   err |-> ErrNil]

\* Register: the entry is keyed by the masternode's ID, its value the account.
Register(m, masternode) ==
  [d |-> [m EXCEPT !.masternodeTrie =
                     TryUpdate(@, masternode.ID, masternode.Account)],
   err |-> ErrNil]

\* The loop of Unregister over the iterator's entries, from entry i on.
RECURSIVE UnregisterLoop(_, _, _, _)
RECURSIVE UnregisterLoopKeepsVotes(_, _, _, _)
UnregisterLoop(m, masternode, entries, i) ==
  IF i > Len(entries)
    THEN m
    ELSE LET delegator == entries[i].Value
             key == masternode \o delegator
             cache == TryDelete(m.cacheTrie, key)
             v == TryGet(m.voteTrie, delegator)
             vote == IF v = masternode
                       THEN TryDelete(m.voteTrie, delegator)
                       ELSE m.voteTrie
         IN UnregisterLoop([m EXCEPT !.cacheTrie = cache, !.voteTrie = vote],
                           masternode, entries, i + 1)

\* Mutant: the loop deletes the cache entries and leaves the votes.
UnregisterLoopKeepsVotes(m, masternode, entries, i) ==
  IF i > Len(entries)
    THEN m
    ELSE UnregisterLoopKeepsVotes(
           [m EXCEPT !.cacheTrie = TryDelete(@, masternode \o entries[i].Value)],
           masternode, entries, i + 1)

\* Mutant: the cascade ends after the first cache entry.
UnregisterFirstOnly(m, masternodeAddr) ==
  LET m1 == [m EXCEPT !.masternodeTrie = TryDelete(@, masternodeAddr)]
      entries == Iterate(m.cacheTrie, masternodeAddr)
      first == IF Len(entries) = 0 THEN entries ELSE <<entries[1]>>
  IN [d |-> UnregisterLoop(m1, masternodeAddr, first, 1), err |-> ErrNil]

\* Mutant: the loop deletes the cache entry under the key the iterator is at,
\* whichever masternode it belongs to.
UnregisterDeletesVisited(m, masternodeAddr) ==
  LET m1 == [m EXCEPT !.masternodeTrie = TryDelete(@, masternodeAddr)]
      entries == Iterate(m.cacheTrie, masternodeAddr)
      visited == {entries[i].Key : i \in DOMAIN entries}
  IN [d |-> [m1 EXCEPT !.cacheTrie = [k \in (DOMAIN @) \ visited |-> @[k]]],
      err |-> ErrNil]

\* Mutant: the vote of every delegator the iterator comes to is deleted,
\* whichever masternode it names.
UnregisterDropsVisitedVotes(m, masternodeAddr) ==
  LET m1 == [m EXCEPT !.masternodeTrie = TryDelete(@, masternodeAddr)]
      entries == Iterate(m.cacheTrie, masternodeAddr)
      m2 == UnregisterLoop(m1, masternodeAddr, entries, 1)
      visited == {entries[i].Value : i \in DOMAIN entries}
  IN [d |-> [m2 EXCEPT !.voteTrie = [k \in (DOMAIN @) \ visited |-> @[k]]],
      err |-> ErrNil]

\* Mutant: the votes for the masternode survive its unregistration.
UnregisterKeepsVotes(m, masternodeAddr) ==
  LET m1 == [m EXCEPT !.masternodeTrie = TryDelete(@, masternodeAddr)]
      entries == Iterate(m.cacheTrie, masternodeAddr)
  IN [d |-> UnregisterLoopKeepsVotes(m1, masternodeAddr, entries, 1),
      err |-> ErrNil]

\* Unregister: the Masternode entry keyed by the address bytes is deleted,
\* then the cache is walked from that address on.
Unregister(m, masternodeAddr) ==
  LET m1 == [m EXCEPT !.masternodeTrie = TryDelete(@, masternodeAddr)]
      entries == Iterate(m.cacheTrie, masternodeAddr)
  IN [d |-> UnregisterLoop(m1, masternodeAddr, entries, 1), err |-> ErrNil]

\* Mutant: the cache entry of the delegator's old vote is left behind.
DelegateKeepsStaleCache(m, delegator, masternode) ==
  IF TryGet(m.masternodeTrie, masternode) = Nil
    THEN [d |-> m, err |-> ErrInvalidDelegate]
    ELSE [d |-> [m EXCEPT
                   !.cacheTrie = TryUpdate(@, masternode \o delegator, delegator),
                   !.voteTrie = TryUpdate(@, delegator, masternode)],
          err |-> ErrNil]

\* Mutant: a delegator that already votes keeps its old vote.
DelegateKeepsOldVote(m, delegator, masternode) ==
  IF TryGet(m.masternodeTrie, masternode) = Nil
    THEN [d |-> m, err |-> ErrInvalidDelegate]
    ELSE IF TryGet(m.voteTrie, delegator) # Nil
           THEN [d |-> m, err |-> ErrNil]
           ELSE [d |-> [m EXCEPT
                          !.cacheTrie = TryUpdate(@, masternode \o delegator, delegator),
                          !.voteTrie = TryUpdate(@, delegator, masternode)],
                 err |-> ErrNil]

\* Mutant: the target's registration is reported but the vote is written.
DelegateWritesInvalid(m, delegator, masternode) ==
  LET oldMasternode == TryGet(m.voteTrie, delegator)
      cache1 == IF oldMasternode # Nil
                  THEN TryDelete(m.cacheTrie, oldMasternode \o delegator)
                  ELSE m.cacheTrie
      m2 == [m EXCEPT
               !.cacheTrie = TryUpdate(cache1, masternode \o delegator, delegator),
               !.voteTrie = TryUpdate(@, delegator, masternode)]
  IN [d |-> m2,
      err |-> IF TryGet(m.masternodeTrie, masternode) = Nil
                THEN ErrInvalidDelegate ELSE ErrNil]

\* Mutant: a delegator that moves its vote takes every cache entry of its old
\* masternode away.
DelegateDropsOldMasternode(m, delegator, masternode) ==
  LET oldMasternode == TryGet(m.voteTrie, delegator)
      stale == IF oldMasternode # Nil
                 THEN {k \in DOMAIN m.cacheTrie :
                         SubSeq(k, 1, Len(oldMasternode)) = oldMasternode}
                 ELSE {}
      cache1 == [k \in (DOMAIN m.cacheTrie) \ stale |-> m.cacheTrie[k]]
  IN IF TryGet(m.masternodeTrie, masternode) = Nil
       THEN [d |-> m, err |-> ErrInvalidDelegate]
       ELSE [d |-> [m EXCEPT
                      !.cacheTrie = TryUpdate(cache1, masternode \o delegator,
                                              delegator),
                      !.voteTrie = TryUpdate(@, delegator, masternode)],
             err |-> ErrNil]

Delegate(m, delegator, masternode) ==
  LET masternodeInTrie == TryGet(m.masternodeTrie, masternode)
      oldMasternode == TryGet(m.voteTrie, delegator)
      cache1 == IF oldMasternode # Nil
                  THEN TryDelete(m.cacheTrie, oldMasternode \o delegator)
                  ELSE m.cacheTrie
      cache2 == TryUpdate(cache1, masternode \o delegator, delegator)
  IN IF masternodeInTrie = Nil
       THEN [d |-> m, err |-> ErrInvalidDelegate]
       ELSE [d |-> [m EXCEPT !.cacheTrie = cache2,
                             !.voteTrie = TryUpdate(@, delegator, masternode)],
             err |-> ErrNil]

\* Mutant: the delegator's vote is removed whichever masternode it names.
UnDelegateAnyVote(m, delegator, masternode) ==
  IF TryGet(m.masternodeTrie, masternode) = Nil
    THEN [d |-> m, err |-> ErrInvalidUnDelegate]
    ELSE [d |-> [m EXCEPT
                   !.cacheTrie = TryDelete(@, masternode \o delegator),
                   !.voteTrie = TryDelete(@, delegator)],
          err |-> ErrNil]

\* Mutant: only the vote is removed, its cache entry stays.
UnDelegateKeepsCache(m, delegator, masternode) ==
  IF TryGet(m.masternodeTrie, masternode) = Nil
    THEN [d |-> m, err |-> ErrInvalidUnDelegate]
    ELSE IF masternode # TryGet(m.voteTrie, delegator)
           THEN [d |-> m, err |-> ErrMismatch]
           ELSE [d |-> [m EXCEPT !.voteTrie = TryDelete(@, delegator)],
                 err |-> ErrNil]

\* Mutant: an invalid target is reported after the delegator's vote and its
\* cache entry have been removed.
UnDelegateRemovesBeforeCheck(m, delegator, masternode) ==
  LET oldMasternode == TryGet(m.voteTrie, delegator)
      removed == [m EXCEPT
                    !.cacheTrie = TryDelete(@, oldMasternode \o delegator),
                    !.voteTrie = TryDelete(@, delegator)]
  IN IF TryGet(m.masternodeTrie, masternode) = Nil
       THEN [d |-> removed, err |-> ErrInvalidUnDelegate]
       ELSE IF masternode # oldMasternode
              THEN [d |-> m, err |-> ErrMismatch]
              ELSE [d |-> removed, err |-> ErrNil]

UnDelegate(m, delegator, masternode) ==
  LET masternodeInTrie == TryGet(m.masternodeTrie, masternode)
      oldMasternode == TryGet(m.voteTrie, delegator)
  IN IF masternodeInTrie = Nil
       THEN [d |-> m, err |-> ErrInvalidUnDelegate]
       ELSE IF masternode # oldMasternode
              THEN [d |-> m, err |-> ErrMismatch]
              ELSE [d |-> [m EXCEPT
                             !.cacheTrie = TryDelete(@, masternode \o delegator),
                             !.voteTrie = TryDelete(@, delegator)],
                    err |-> ErrNil]

\* Mutant: the count goes on from the parent cycle's count across a cycle
\* boundary.
RollingCntNoReset(m, parentBlockTime, currentBlockTime, witness) ==
  LET cntBytes == TryGet(m.minerRollingTrie,
                         PutUint64(parentBlockTime \div CycleInterval) \o witness)
  IN IF cntBytes # Nil THEN Uint64(cntBytes) + 1 ELSE 1

\* Mutant: the count is carried across the cycle boundary and reset within
\* the cycle.
RollingCntResetInCycle(m, parentBlockTime, currentBlockTime, witness) ==
  LET currentCycle == parentBlockTime \div CycleInterval
      currentCycleBytes == PutUint64(currentCycle)
      newCycle == currentBlockTime \div CycleInterval
      cntBytes == TryGet(m.minerRollingTrie, currentCycleBytes \o witness)
  IN IF currentCycle # newCycle /\ cntBytes # Nil
       THEN Uint64(cntBytes) + 1
       ELSE 1

\* Mutant: the witness's entry of the parent cycle is pruned when the count
\* is written.
RollingPrunesParentCycle(m, parentBlockTime, currentBlockTime, witness) ==
  LET currentCycle == parentBlockTime \div CycleInterval
      newCycle == currentBlockTime \div CycleInterval
      cntBytes == TryGet(m.minerRollingTrie, PutUint64(currentCycle) \o witness)
      cnt == IF currentCycle = newCycle /\ cntBytes # Nil
               THEN Uint64(cntBytes) + 1
               ELSE 1
  IN [d |-> [m EXCEPT !.minerRollingTrie =
                        TryUpdate(TryDelete(@, PutUint64(currentCycle) \o witness),
                                  PutUint64(newCycle) \o witness, PutUint64(cnt))],
      err |-> ErrNil]

\* Mutant: the count goes on from the first entry the iterator finds,
\* whichever witness it belongs to.
RollingCntFirstEntry(m, parentBlockTime, currentBlockTime, witness) ==
  LET currentCycle == parentBlockTime \div CycleInterval
      newCycle == currentBlockTime \div CycleInterval
      entries == Iterate(m.minerRollingTrie, PutUint64(currentCycle))
  IN IF currentCycle = newCycle /\ Len(entries) > 0
       THEN Uint64(entries[1].Value) + 1
       ELSE 1

\* Rolling: the mint count of witness in the cycle of currentBlockTime.
RollingCnt(m, parentBlockTime, currentBlockTime, witness) ==
  LET currentCycle == parentBlockTime \div CycleInterval
      currentCycleBytes == PutUint64(currentCycle)
      newCycle == currentBlockTime \div CycleInterval
      iterNext == HasNext(m.minerRollingTrie, currentCycleBytes)
      cntBytes == TryGet(m.minerRollingTrie, currentCycleBytes \o witness)
  IN IF currentCycle = newCycle /\ iterNext /\ cntBytes # Nil
       THEN Uint64(cntBytes) + 1
       ELSE 1

Rolling(m, parentBlockTime, currentBlockTime, witness) ==
  LET newCycle == currentBlockTime \div CycleInterval
      cnt == RollingCnt(m, parentBlockTime, currentBlockTime, witness)
  IN [d |-> [m EXCEPT !.minerRollingTrie =
                        TryUpdate(@, PutUint64(newCycle) \o witness, PutUint64(cnt))],
      err |-> ErrNil]

\* SetWitnesses: the RLP of the list under the key "witness" of the cycle trie.
SetWitnesses(m, witnesses) ==
  [d |-> [m EXCEPT !.cycleTrie = TryUpdate(@, WitnessKey, RlpList(witnesses))],
   err |-> ErrNil]

ErrDecode == "failed to decode witnesses"

\* GetWitnesses: the list decoded from the RLP under the key "witness" of
\* the cycle trie; no list and an error when it does not decode.
GetWitnesses(m) ==
  LET witnessRLP == TryGet(m.cycleTrie, WitnessKey)
      decoded == RlpDecodeBytes(witnessRLP)
  IN IF decoded[2]
       THEN [witnesses |-> decoded[1], err |-> ErrNil]
       ELSE [witnesses |-> <<>>, err |-> ErrDecode]

\* Copy: new trie objects for five of the six tries (voteCntTrie and the
\* databases are left nil in the copy).
Copy(m) ==
  [cycleTrie |-> m.cycleTrie, cacheTrie |-> m.cacheTrie, voteTrie |-> m.voteTrie,
   masternodeTrie |-> m.masternodeTrie, minerRollingTrie |-> m.minerRollingTrie]

\* Mutant: the rotation trie is not reverted.
RevertKeepsRolling(m, s) ==
  [m EXCEPT !.cycleTrie = s.cycleTrie, !.cacheTrie = s.cacheTrie,
            !.masternodeTrie = s.masternodeTrie, !.voteTrie = s.voteTrie]

\* RevertToSnapShot: the manager's five trie pointers become the snapshot's.
RevertToSnapShot(m, s) ==
  [m EXCEPT !.cycleTrie = s.cycleTrie, !.cacheTrie = s.cacheTrie,
            !.masternodeTrie = s.masternodeTrie, !.voteTrie = s.voteTrie,
            !.minerRollingTrie = s.minerRollingTrie]

\* Trie.Hash: the root hash of a trie, a collision-free digest of its
\* contents (the entries in key order; insertion order leaves no trace).
Hash(t) ==
  LET keys == SortKeys(DOMAIN t)
  IN [root |-> [i \in 1..Len(keys) |-> <<keys[i], t[keys[i]]>>]]

\* rlp.Encode(hw, hash): the prefix 0xa0 and the 32 bytes of the hash.
RlpHash(h) == <<160, h>>

\* sha3.NewKeccak256 over the bytes written: a collision-free digest.
Keccak256(data) == [keccak256 |-> data]

\* DevoteProtocol.Root: five of the manager's six roots are hashed.
Root(m) ==
  Keccak256(RlpHash(Hash(m.cycleTrie)) \o RlpHash(Hash(m.cacheTrie))
              \o RlpHash(Hash(m.masternodeTrie)) \o RlpHash(Hash(m.voteTrie))
              \o RlpHash(Hash(m.minerRollingTrie)))

\* ProtocolAtomic: the six roots of the manager.
ProtocolAtomic(m) ==
  [CycleHash |-> Hash(m.cycleTrie), CacheHash |-> Hash(m.cacheTrie),
   MasternodeHash |-> Hash(m.masternodeTrie), VoteHash |-> Hash(m.voteTrie),
   MinerRollingHash |-> Hash(m.minerRollingTrie),
   VoteCntHash |-> Hash(m.voteCntTrie)]

\* DevoteProtocolAtomic.Root: all six roots are hashed.
AtomicRoot(p) ==
  Keccak256(RlpHash(p.CycleHash) \o RlpHash(p.CacheHash)
              \o RlpHash(p.MasternodeHash) \o RlpHash(p.VoteHash)
              \o RlpHash(p.MinerRollingHash) \o RlpHash(p.VoteCntHash))

\* The contents a trie opened from a checkpoint root may have.
StoredTries == {EmptyTrie, TryUpdate(EmptyTrie, Address(1), Address(1))}

\* NewDevoteProtocolFromAtomic: every trie is opened at the root the
\* checkpoint names, whatever contents the database holds under it.
NewDevoteProtocolFromAtomic ==
  [cycleTrie : StoredTries, cacheTrie : StoredTries, voteTrie : StoredTries,
   masternodeTrie : StoredTries, minerRollingTrie : StoredTries,
   voteCntTrie : StoredTries]

\* SetVoteCnt: the manager's vote-count trie pointer becomes voteCnt.
SetVoteCnt(m, voteCnt) == [m EXCEPT !.voteCntTrie = voteCnt]

\* common.Hash{}: the 32 zero bytes, the root hash of no trie (here the
\* listing with an empty value, which no trie stores).
ZeroHash == [root |-> << <<Nil, Nil>> >>]

\* The prefixed tables of the disk database, each the set of trie roots
\* whose nodes have been flushed to it.
Tables == {"cycle", "cache", "vote", "masternode", "minerRolling", "voteCnt"}

EmptyDB == [table \in Tables |-> {}]

\* The contents of the trie with root hash h.
TrieOf(h) ==
  LET entries == {h.root[j] : j \in DOMAIN h.root}
  IN [key \in {e[1] : e \in entries} |-> (CHOOSE e \in entries : e[1] = key)[2]]

\* trie.New(root, triedb): the zero hash and the root of the empty trie open
\* an empty trie; any other root has to be in the table.
NewTrie(root, table) ==
  IF root = ZeroHash \/ root = Hash(EmptyTrie)
    THEN [t |-> EmptyTrie, err |-> ErrNil]
    ELSE IF root \in table
           THEN [t |-> TrieOf(root), err |-> ErrNil]
           ELSE [t |-> EmptyTrie, err |-> ErrMissingNode]

\* The steps of Commit that return an error value, in the order they run.
CommitSteps ==
  <<"cycleTrie.CommitTo", "cycleTriedb.Commit",
    "cacheTrie.CommitTo", "cacheTriedb.Commit",
    "voteTrie.CommitTo", "voteTriedb.Commit",
    "masternodeTrie.CommitTo", "masternodeTriedb.Commit",
    "minerRollingTrie.CommitTo", "minerRollingTriedb.Commit">>

NoFailure == "none"

Failures == {CommitSteps[i] : i \in DOMAIN CommitSteps} \cup {NoFailure}

\* triedb.Commit(root, false) on a prefixed table: the root is flushed
\* unless the step fails.
Flush(db, table, root, ok) == IF ok THEN [db EXCEPT ![table] = @ \cup {root}] ELSE db

\* What Commit returns: cp is <<>> for a nil checkpoint.
CommitResult(cp, err, db) == [cp |-> cp, err |-> err, db |-> db]

\* Commit: five tries are committed and flushed in turn; the step named by
\* failed, if any, returns an error.  A failed CommitTo returns (nil, err).
\* A failed cycleTriedb.Commit returns (nil, err) with err the nil error of
\* the CommitTo before it, and the result of the other four flushes is
\* dropped.  The checkpoint returned has no VoteCntHash.
Commit(m, db, failed) ==
  LET cycleRoot == Hash(m.cycleTrie)
      cacheRoot == Hash(m.cacheTrie)
      voteRoot == Hash(m.voteTrie)
      masternodeRoot == Hash(m.masternodeTrie)
      minerRollingRoot == Hash(m.minerRollingTrie)
      db1 == Flush(db, "cycle", cycleRoot, TRUE)
      db2 == Flush(db1, "cache", cacheRoot, failed # "cacheTriedb.Commit")
      db3 == Flush(db2, "vote", voteRoot, failed # "voteTriedb.Commit")
      db4 == Flush(db3, "masternode", masternodeRoot,
                   failed # "masternodeTriedb.Commit")
      db5 == Flush(db4, "minerRolling", minerRollingRoot,
                   failed # "minerRollingTriedb.Commit")
  IN IF failed = "cycleTrie.CommitTo" THEN CommitResult(<<>>, ErrStorage, db)
     ELSE IF failed = "cycleTriedb.Commit" THEN CommitResult(<<>>, ErrNil, db)
     ELSE IF failed = "cacheTrie.CommitTo" THEN CommitResult(<<>>, ErrStorage, db1)
     ELSE IF failed = "voteTrie.CommitTo" THEN CommitResult(<<>>, ErrStorage, db2)
     ELSE IF failed = "masternodeTrie.CommitTo"
            THEN CommitResult(<<>>, ErrStorage, db3)
     ELSE IF failed = "minerRollingTrie.CommitTo"
            THEN CommitResult(<<>>, ErrStorage, db4)
     ELSE CommitResult(
            <<[CycleHash |-> cycleRoot, CacheHash |-> cacheRoot,
               VoteHash |-> voteRoot, MasternodeHash |-> masternodeRoot,
               MinerRollingHash |-> minerRollingRoot,
               VoteCntHash |-> ZeroHash]>>,
            ErrNil, db5)

\* NewDevoteProtocolFromAtomic(db, ctxAtomic): the six tries are opened in
\* turn at the checkpoint's roots; the first that cannot be opened ends the
\* call with its error and no manager (d is <<>>).
NewDevoteProtocolFromAtomicIn(db, ctxAtomic) ==
  LET cycleTrie == NewTrie(ctxAtomic.CycleHash, db.cycle)
      cacheTrie == NewTrie(ctxAtomic.CacheHash, db.cache)
      voteTrie == NewTrie(ctxAtomic.VoteHash, db.vote)
      masternodeTrie == NewTrie(ctxAtomic.MasternodeHash, db.masternode)
      minerRollingTrie == NewTrie(ctxAtomic.MinerRollingHash, db.minerRolling)
      voteCntTrie == NewTrie(ctxAtomic.VoteCntHash, db.voteCnt)
      opened == <<cycleTrie, cacheTrie, voteTrie, masternodeTrie,
                  minerRollingTrie, voteCntTrie>>
      errs == {i \in DOMAIN opened : opened[i].err # ErrNil}
  IN IF errs # {}
       THEN [d |-> <<>>,
             err |-> opened[CHOOSE i \in errs : \A j \in errs : i <= j].err]
       ELSE [d |-> <<[cycleTrie |-> cycleTrie.t, cacheTrie |-> cacheTrie.t,
                      voteTrie |-> voteTrie.t,
                      masternodeTrie |-> masternodeTrie.t,
                      minerRollingTrie |-> minerRollingTrie.t,
                      voteCntTrie |-> voteCntTrie.t]>>,
             err |-> ErrNil]

\* ------------------------------------------------------------------- state

VARIABLES
  d,         \* the manager: the contents of the six tries it points to
  peer,      \* a second manager
  snapshot,  \* <<s>>: the tries of the snapshot the caller holds; <<>>: none
  aliased,   \* the manager's five trie pointers are the snapshot's own tries
  taken,     \* <<c>>: the contents of the five tries when the snapshot was taken
  last,      \* the call made last, with its arguments and what it returned
  pre,       \* the manager's tries as they were before the call made last
  diskdb     \* the disk database: the roots flushed to each prefixed table

vars == <<d, peer, snapshot, aliased, taken, last, pre, diskdb>>

NoCall == [op |-> "none", err |-> ErrNil]

Init ==
  /\ d = NewDevoteProtocol
  /\ peer = NewDevoteProtocol
  /\ snapshot = <<>>
  /\ aliased = FALSE
  /\ taken = <<>>
  /\ last = NoCall
  /\ pre = NewDevoteProtocol
  /\ diskdb = EmptyDB

\* A call that returned r = [d, err].  The tries are updated in place: when
\* the manager points to the snapshot's tries, the snapshot sees the update.
Return(r, call) ==
  /\ d' = r.d
  /\ snapshot' = IF aliased THEN <<Copy(r.d)>> ELSE snapshot
  /\ UNCHANGED <<peer, aliased, taken, diskdb>>
  /\ last' = call @@ [err |-> r.err]
  /\ pre' = d

DoRegister(masternode) ==
  Return(Register(d, masternode),
         [op |-> "Register", id |-> masternode.ID, account |-> masternode.Account])

DoUnregister(masternodeAddr) ==
  Return(Unregister(d, masternodeAddr),
         [op |-> "Unregister", masternode |-> masternodeAddr])

DoDelegate(delegator, masternode) ==
  Return(Delegate(d, delegator, masternode),
         [op |-> "Delegate", delegator |-> delegator, masternode |-> masternode])

DoUnDelegate(delegator, masternode) ==
  Return(UnDelegate(d, delegator, masternode),
         [op |-> "UnDelegate", delegator |-> delegator, masternode |-> masternode])

DoRolling(parentBlockTime, currentBlockTime, witness) ==
  /\ RollingCnt(d, parentBlockTime, currentBlockTime, witness) <= MaxCnt
  /\ Return(Rolling(d, parentBlockTime, currentBlockTime, witness),
            [op |-> "Rolling", parentBlockTime |-> parentBlockTime,
             currentBlockTime |-> currentBlockTime, witness |-> witness])

DoSetWitnesses(witnesses) ==
  Return(SetWitnesses(d, witnesses), [op |-> "SetWitnesses", witnesses |-> witnesses])

\* s := d.Snapshot()
DoSnapshot ==
  /\ snapshot' = <<Copy(d)>>
  /\ taken' = <<Copy(d)>>
  /\ aliased' = FALSE
  /\ last' = [op |-> "Snapshot", err |-> ErrNil]
  /\ pre' = d
  /\ UNCHANGED <<d, peer, diskdb>>

\* d.RevertToSnapShot(s)
DoRevertToSnapShot ==
  /\ Len(snapshot) = 1
  /\ d' = RevertToSnapShot(d, snapshot[1])
  /\ aliased' = TRUE
  /\ last' = [op |-> "RevertToSnapShot", err |-> ErrNil]
  /\ pre' = d
  /\ UNCHANGED <<peer, snapshot, taken, diskdb>>

\* d.Root() and peer.Root()
DoRoot ==
  /\ last' = [op |-> "Root", err |-> ErrNil, h |-> Root(d), peerh |-> Root(peer)]
  /\ pre' = d
  /\ UNCHANGED <<d, peer, snapshot, aliased, taken, diskdb>>

\* witnesses, err := d.GetWitnesses()
DoGetWitnesses ==
  /\ last' = [op |-> "GetWitnesses"] @@ GetWitnesses(d)
  /\ pre' = d
  /\ UNCHANGED <<d, peer, snapshot, aliased, taken, diskdb>>

\* d.SetVoteCnt(voteCnt)
DoSetVoteCnt(voteCnt) ==
  Return([d |-> SetVoteCnt(d, voteCnt), err |-> ErrNil], [op |-> "SetVoteCnt"])

\* checkpoint, err := d.Commit(db), with the step named by failed failing.
DoCommit(failed) ==
  LET r == Commit(d, diskdb, failed)
  IN /\ diskdb' = r.db
     /\ last' = [op |-> "Commit", failed |-> failed, cp |-> r.cp, err |-> r.err]
     /\ pre' = d
     /\ UNCHANGED <<d, peer, snapshot, aliased, taken>>

\* peer, err := NewDevoteProtocolFromAtomic(db, checkpoint) with the
\* checkpoint the Commit before has returned.
DoNewDevoteProtocolFromAtomic ==
  /\ last.op = "Commit"
  /\ Len(last.cp) = 1
  /\ LET r == NewDevoteProtocolFromAtomicIn(diskdb, last.cp[1])
     IN /\ peer' = IF r.err = ErrNil THEN r.d[1] ELSE peer
        /\ last' = [op |-> "NewDevoteProtocolFromAtomic", err |-> r.err,
                    failed |-> last.failed]
  /\ pre' = d
  /\ UNCHANGED <<d, snapshot, aliased, taken, diskdb>>

\* Registration and delegation calls with addresses drawn from A.
Calls(A) ==
  \/ \E masternode \in MasternodesOf(A) : DoRegister(masternode)
  \/ \E masternodeAddr \in A : DoUnregister(masternodeAddr)
  \/ \E delegator \in A, masternode \in A : DoDelegate(delegator, masternode)
  \/ \E delegator \in A, masternode \in A : DoUnDelegate(delegator, masternode)

\* Registration and delegation.
Next == Calls(Addr)

Spec == Init /\ [][Next]_vars

\* Registration and delegation under speculative execution: the caller takes
\* a snapshot, goes on, and may revert to it.
NextSnapshot ==
  \/ Calls(SnapAddr)
  \/ DoSnapshot
  \/ DoRevertToSnapShot

SpecSnapshot == Init /\ [][NextSnapshot]_vars

\* Rotation accounting.
NextRolling ==
  \E parentBlockTime \in Times, currentBlockTime \in Times, witness \in Addr :
    DoRolling(parentBlockTime, currentBlockTime, witness)

SpecRolling == Init /\ [][NextRolling]_vars

\* A manager with an entry in each of the five tries other than the rotation
\* trie: a registered masternode with a delegator, a witness list and a
\* vote count.
Populated ==
  LET a == Address(1)
      registered == Register(NewDevoteProtocol, [ID |-> a, Account |-> a]).d
      delegated == Delegate(registered, a, a).d
      scheduled == SetWitnesses(delegated, <<a>>).d
  IN SetVoteCnt(scheduled, TryUpdate(EmptyTrie, a, PutUint64(1)))

InitPopulated ==
  /\ d = Populated
  /\ peer = NewDevoteProtocol
  /\ snapshot = <<>>
  /\ aliased = FALSE
  /\ taken = <<>>
  /\ last = NoCall
  /\ pre = Populated
  /\ diskdb = EmptyDB

\* Rotation accounting of a manager whose other tries hold entries.
SpecRollingPopulated == InitPopulated /\ [][NextRolling]_vars

\* Speculative execution of calls on all five tries of a snapshot, with one
\* address in every role and blocks minted in cycle 0.
NextSpeculate ==
  \/ Calls({Address(1)})
  \/ DoRolling(0, 0, Address(1))
  \/ \E witnesses \in WitnessLists({Address(1)}) : DoSetWitnesses(witnesses)
  \/ DoSnapshot
  \/ DoRevertToSnapShot

SpecSpeculate == Init /\ [][NextSpeculate]_vars

\* One block's changes to the registration, vote, cache and vote-count
\* tries, its commit, and the reopening of the manager from the checkpoint.
NextCommit ==
  \/ DoRegister([ID |-> Address(1), Account |-> Address(1)])
  \/ DoDelegate(Address(1), Address(1))
  \/ DoUnregister(Address(1))
  \/ \E voteCnt \in StoredTries : DoSetVoteCnt(voteCnt)
  \/ \E failed \in Failures : DoCommit(failed)
  \/ DoNewDevoteProtocolFromAtomic

SpecCommit == Init /\ [][NextCommit]_vars

\* The witness schedule: lists are set and read while masternodes register,
\* delegators vote and blocks are minted.
NextWitnesses ==
  \/ \E witnesses \in WitnessLists(Addr) \cup LongWitnessLists :
       DoSetWitnesses(witnesses)
  \/ DoGetWitnesses
  \/ DoRegister([ID |-> Address(1), Account |-> Address(1)])
  \/ DoDelegate(Address(1), Address(1))
  \/ DoRolling(0, 0, Address(1))

SpecWitnesses == Init /\ [][NextWitnesses]_vars

\* The combined root of two managers opened from checkpoints.
InitRoot ==
  /\ d \in NewDevoteProtocolFromAtomic
  /\ peer \in NewDevoteProtocolFromAtomic
  /\ snapshot = <<>>
  /\ aliased = FALSE
  /\ taken = <<>>
  /\ last = NoCall
  /\ pre = d
  /\ diskdb = EmptyDB

NextRoot == DoRoot

SpecRoot == InitRoot /\ [][NextRoot]_vars

\* ------------------------------------------------------------------ claims

\* The key of the cache entry of delegator D voting for masternode M.
CacheKey(M, D) == M \o D

IsCall(op) == last.op = op

\* C1: in every state reached by Register, Unregister, Delegate, UnDelegate,
\* Snapshot and RevertToSnapShot calls, the cache trie has the key (M, D)
\* exactly when the vote trie maps D to M, and it has no other key.
C1_CacheMatchesVote ==
  /\ \A M \in Addr, D \in Addr :
       CacheKey(M, D) \in DOMAIN d.cacheTrie <=> TryGet(d.voteTrie, D) = M
  /\ DOMAIN d.cacheTrie =
       {CacheKey(d.voteTrie[D], D) : D \in DOMAIN d.voteTrie}

\* C1 witness: after a revert, a delegator has moved its vote from one
\* masternode to another.
C1_Witness ==
  /\ aliased
  /\ IsCall("Delegate") /\ last.err = ErrNil
  /\ TryGet(pre.voteTrie, last.delegator) \notin {Nil, last.masternode}

\* C2: after a successful Delegate(D, M) the vote trie has an entry for D and
\* its value is M, whatever D voted for before.
C2_VoteIsLatestDelegate ==
  (IsCall("Delegate") /\ last.err = ErrNil)
    => /\ last.delegator \in DOMAIN d.voteTrie
       /\ d.voteTrie[last.delegator] = last.masternode

\* C2 witness: a successful Delegate by a delegator that voted for another
\* masternode before.
C2_Witness ==
  /\ IsCall("Delegate") /\ last.err = ErrNil
  /\ TryGet(pre.voteTrie, last.delegator) \notin {Nil, last.masternode}
  /\ d.voteTrie[last.delegator] = last.masternode

\* A successful Delegate(D, M) is followed by UnDelegate(D, M).
DelegateThenUnDelegate ==
  /\ IsCall("Delegate") /\ last.err = ErrNil
  /\ last'.op = "UnDelegate"
  /\ last'.delegator = last.delegator
  /\ last'.masternode = last.masternode

\* C3 as claimed: Delegate(D, M) followed by UnDelegate(D, M) leaves the vote
\* and cache tries as they were before the Delegate, also when D voted for
\* another masternode before.
C3_RoundTripAnyState ==
  [][DelegateThenUnDelegate
       => (d'.voteTrie = pre.voteTrie /\ d'.cacheTrie = pre.cacheTrie)]_vars

\* C3 amended: Delegate(D, M) followed by UnDelegate(D, M) leaves the vote
\* and cache tries as they were before the Delegate when D had no vote
\* before it.
C3_RoundTripFreshDelegator ==
  [][(DelegateThenUnDelegate /\ TryGet(pre.voteTrie, last.delegator) = Nil)
       => /\ last'.err = ErrNil
          /\ d'.voteTrie = pre.voteTrie
          /\ d'.cacheTrie = pre.cacheTrie]_vars

\* C3 witness: a successful UnDelegate has taken away a vote while another
\* delegator's vote stays.
C3_Witness ==
  /\ IsCall("UnDelegate") /\ last.err = ErrNil
  /\ TryGet(pre.voteTrie, last.delegator) = last.masternode
  /\ last.delegator \notin DOMAIN d.voteTrie
  /\ d.voteTrie # EmptyTrie

\* Two different delegators voted for M, and M was registered, before the
\* call made last.
TwoDelegatorsBefore(M) ==
  /\ M \in DOMAIN pre.masternodeTrie
  /\ \E D1 \in Addr, D2 \in Addr :
       /\ D1 # D2
       /\ TryGet(pre.voteTrie, D1) = M
       /\ TryGet(pre.voteTrie, D2) = M

\* C4: Unregister(M) of a registered masternode with delegators D1 and D2
\* removes M's masternode entry, the delegators' cache entries and their
\* votes, and a second Unregister(M) returns no error and changes no trie.
C4_UnregisterCascade ==
  (IsCall("Unregister") /\ TwoDelegatorsBefore(last.masternode))
    => /\ last.err = ErrNil
       /\ last.masternode \notin DOMAIN d.masternodeTrie
       /\ \A D \in Addr :
            TryGet(pre.voteTrie, D) = last.masternode
              => /\ CacheKey(last.masternode, D) \notin DOMAIN d.cacheTrie
                 /\ D \notin DOMAIN d.voteTrie
       /\ Unregister(d, last.masternode) = [d |-> d, err |-> ErrNil]

\* C4 witness: Unregister(M) was called when two delegators voted for M.
C4_Witness ==
  /\ IsCall("Unregister")
  /\ TwoDelegatorsBefore(last.masternode)
  /\ d.voteTrie # pre.voteTrie

\* C5: every vote names a masternode that has a masternode entry.
C5_VotesForRegistered ==
  \A D \in DOMAIN d.voteTrie : d.voteTrie[D] \in DOMAIN d.masternodeTrie

\* C5 witness: an Unregister has removed votes and other votes remain.
C5_Witness ==
  /\ IsCall("Unregister")
  /\ d.voteTrie # pre.voteTrie
  /\ d.voteTrie # EmptyTrie

\* C6: Delegate(D, M) for M without a masternode entry returns the
\* invalid-target error and leaves the vote and cache tries as they were.
C6_InvalidDelegateRejected ==
  (IsCall("Delegate") /\ TryGet(pre.masternodeTrie, last.masternode) = Nil)
    => /\ last.err = ErrInvalidDelegate
       /\ d.voteTrie = pre.voteTrie
       /\ d.cacheTrie = pre.cacheTrie

\* C6 witness: a Delegate to an unregistered masternode was rejected while
\* votes exist.
C6_Witness ==
  /\ IsCall("Delegate")
  /\ last.err = ErrInvalidDelegate
  /\ last.masternode \notin DOMAIN d.masternodeTrie
  /\ d.voteTrie # EmptyTrie

\* C7: UnDelegate(D, M2) for a registered M2 that is not D's current vote
\* (D votes for another masternode, or for none) returns the mismatch error
\* and leaves all six tries as they were.
C7_MismatchRejected ==
  (/\ IsCall("UnDelegate")
   /\ TryGet(pre.masternodeTrie, last.masternode) # Nil
   /\ TryGet(pre.voteTrie, last.delegator) # last.masternode)
    => (last.err = ErrMismatch /\ d = pre)

\* C7 witness: a delegator voting for M1 called UnDelegate for a registered
\* M2 and got the mismatch error.
C7_Witness ==
  /\ IsCall("UnDelegate")
  /\ last.err = ErrMismatch
  /\ TryGet(pre.voteTrie, last.delegator) \notin {Nil, last.masternode}
  /\ last.masternode \in DOMAIN pre.masternodeTrie

\* The cycle a block time falls in.
Cycle(t) == t \div CycleInterval

\* The rotation counter of witness W in cycle c: 0 when there is none.
MintCnt(m, c, W) ==
  LET cntBytes == TryGet(m.minerRollingTrie, PutUint64(c) \o W)
  IN IF cntBytes = Nil THEN 0 ELSE Uint64(cntBytes)

\* C8: Rolling(t0, t0, W) sets W's counter for the cycle of t0 to 1 when
\* there was none and to 2 when it was 1, and Rolling(t0, t0+CycleInterval, W)
\* writes 1 for W in the new cycle whatever W's count in the cycle of t0 was.
C8_RotationReset ==
  IsCall("Rolling") =>
    LET t0 == last.parentBlockTime
        t1 == last.currentBlockTime
        W == last.witness
    IN /\ (t1 = t0 /\ MintCnt(pre, Cycle(t0), W) = 0)
            => MintCnt(d, Cycle(t0), W) = 1
       /\ (t1 = t0 /\ MintCnt(pre, Cycle(t0), W) = 1)
            => MintCnt(d, Cycle(t0), W) = 2
       /\ t1 = t0 + CycleInterval
            => /\ Cycle(t1) = Cycle(t0) + 1
               /\ MintCnt(d, Cycle(t1), W) = 1

\* C8 witness: a witness with count 2 in the cycle of t0 mints the first
\* block of the next cycle.
C8_Witness ==
  /\ IsCall("Rolling")
  /\ last.currentBlockTime = last.parentBlockTime + CycleInterval
  /\ MintCnt(pre, Cycle(last.parentBlockTime), last.witness) = 2
  /\ MintCnt(d, Cycle(last.currentBlockTime), last.witness) = 1

\* The fields of a checkpoint in which p and q differ.
DifferingRoots(p, q) == {f \in DOMAIN p : p[f] # q[f]}

\* C9 as claimed: two managers with the same six sub-roots have the same
\* Root(), and two managers that differ in one of the six sub-roots have
\* different Root().
C9_RootBindsSixRoots ==
  IsCall("Root") =>
    LET differing == DifferingRoots(ProtocolAtomic(d), ProtocolAtomic(peer))
    IN /\ differing = {} => last.h = last.peerh
       /\ Cardinality(differing) = 1 => last.h # last.peerh

\* C10: the first RevertToSnapShot(s) after Snapshot() leaves the cycle,
\* cache, masternode, vote and rotation tries with the contents they had
\* when s was taken, whatever calls were made in between.
C10_RevertRestores ==
  [][(last'.op = "RevertToSnapShot" /\ ~aliased) => Copy(d') = taken[1]]_vars

\* C10 witness: a revert has discarded changes to each of the five tries.
C10_Witness ==
  /\ IsCall("RevertToSnapShot")
  /\ Copy(d) = taken[1]
  /\ \A f \in DOMAIN Copy(d) : pre[f] # d[f]

\* C11 as claimed: when a step of Commit fails (a trie's CommitTo or the
\* flush of a committed root to its table), Commit returns a non-nil error
\* and no checkpoint.
C11_CommitFailureReported ==
  (IsCall("Commit") /\ last.failed # NoFailure)
    => (last.err # ErrNil /\ last.cp = <<>>)

\* The key of the rotation entry of witness W in cycle c.
RollingKey(c, W) == PutUint64(c) \o W

\* The rotation entry the Rolling call made last has written.
LastRollingKey == RollingKey(Cycle(last.currentBlockTime), last.witness)

SameCycle == Cycle(last.parentBlockTime) = Cycle(last.currentBlockTime)

\* C12 as claimed: a Rolling call that writes the count of (c, W) where a
\* count is stored writes a count that is not below the stored one,
\* whatever the two timestamps of the call.
C12_CountNeverDecreases ==
  (IsCall("Rolling") /\ LastRollingKey \in DOMAIN pre.minerRollingTrie)
    => Uint64(d.minerRollingTrie[LastRollingKey])
         >= Uint64(pre.minerRollingTrie[LastRollingKey])

\* C12 amended: a Rolling call with both timestamps in cycle c that writes
\* the count of (c, W) where a count is stored writes a count that is not
\* below the stored one.
C12_CountNeverDecreasesInCycle ==
  (IsCall("Rolling") /\ SameCycle
     /\ LastRollingKey \in DOMAIN pre.minerRollingTrie)
    => Uint64(d.minerRollingTrie[LastRollingKey])
         >= Uint64(pre.minerRollingTrie[LastRollingKey])

\* C12 witness: a same-cycle Rolling has written over a stored count while
\* another cycle holds a count of the same witness.
C12_Witness ==
  /\ IsCall("Rolling") /\ SameCycle
  /\ LastRollingKey \in DOMAIN pre.minerRollingTrie
  /\ Uint64(d.minerRollingTrie[LastRollingKey]) = MaxCnt
  /\ \E t \in Times : /\ Cycle(t) # Cycle(last.currentBlockTime)
                       /\ RollingKey(Cycle(t), last.witness)
                            \in DOMAIN d.minerRollingTrie

\* C13 as claimed: a Commit in which no step fails, followed by
\* NewDevoteProtocolFromAtomic with the checkpoint it returned, opens a
\* manager whose six tries have the contents, and so the roots, of the six
\* tries of the manager that was committed.
C13_ReopenedEqualsCommitted ==
  (IsCall("NewDevoteProtocolFromAtomic") /\ last.failed = NoFailure)
    => /\ last.err = ErrNil
       /\ peer = d
       /\ ProtocolAtomic(peer) = ProtocolAtomic(d)

\* The five tries other than trie f are as they were before the call.
OthersUnchanged(f) == \A g \in (DOMAIN d) \ {f} : d[g] = pre[g]

\* Every entry of trie f under a key outside K is as it was before the call.
EntriesUnchangedExcept(f, K) ==
  /\ (DOMAIN d[f]) \ K = (DOMAIN pre[f]) \ K
  /\ \A k \in (DOMAIN d[f]) \ K : d[f][k] = pre[f][k]

\* C14: Register(id, account) returns no error in every state; afterwards
\* the masternode trie has the entry id -> account, also when id was
\* registered with another account before, every other masternode entry is
\* as before, and the other five tries are unchanged.
C14_RegisterInsertsOrReplaces ==
  IsCall("Register")
    => /\ last.err = ErrNil
       /\ last.id \in DOMAIN d.masternodeTrie
       /\ d.masternodeTrie[last.id] = last.account
       /\ EntriesUnchangedExcept("masternodeTrie", {last.id})
       /\ OthersUnchanged("masternodeTrie")

\* C14 witness: an ID registered with one account is registered again with
\* another, while another masternode entry and a vote exist.
C14_Witness ==
  /\ IsCall("Register")
  /\ last.id \in DOMAIN pre.masternodeTrie
  /\ pre.masternodeTrie[last.id] # last.account
  /\ d.masternodeTrie[last.id] = last.account
  /\ (DOMAIN d.masternodeTrie) \ {last.id} # {}
  /\ d.voteTrie # EmptyTrie

\* The cache keys of the delegators of masternode M in manager m.
CacheKeysOf(m, M) ==
  {k \in DOMAIN m.cacheTrie :
     Len(k) >= Len(M) /\ SubSeq(k, 1, Len(M)) = M}

\* C15: Unregister(A) for an address A with no masternode entry returns no
\* error, and when no cache key starts with A either, the six tries are as
\* they were before the call.
C15_UnregisterAbsent ==
  (IsCall("Unregister") /\ last.masternode \notin DOMAIN pre.masternodeTrie)
    => /\ last.err = ErrNil
       /\ CacheKeysOf(pre, last.masternode) = {} => d = pre

\* C15 witness: Unregister of an address with no masternode entry and no
\* delegators, while the iterator started at the address finds the cache
\* entry of another masternode.
C15_Witness ==
  /\ IsCall("Unregister")
  /\ last.masternode \notin DOMAIN pre.masternodeTrie
  /\ CacheKeysOf(pre, last.masternode) = {}
  /\ Len(Iterate(pre.cacheTrie, last.masternode)) > 0
  /\ last.err = ErrNil
  /\ d = pre

\* C16: Rolling writes one rotation entry, the one under the key (cycle of
\* currentBlockTime, witness); every rotation entry of another cycle or of
\* another witness is as it was before the call, none is removed, and the
\* other five tries are unchanged.
C16_RollingWritesOneEntry ==
  IsCall("Rolling")
    => /\ LastRollingKey \in DOMAIN d.minerRollingTrie
       /\ EntriesUnchangedExcept("minerRollingTrie", {LastRollingKey})
       /\ OthersUnchanged("minerRollingTrie")

\* C16 witness: the first block of a cycle is minted by a witness that has a
\* count in the cycle before, while another witness has counts too and the
\* other five tries hold entries.
C16_Witness ==
  /\ IsCall("Rolling") /\ ~SameCycle
  /\ RollingKey(Cycle(last.parentBlockTime), last.witness)
       \in DOMAIN d.minerRollingTrie
  /\ \E W \in Addr \ {last.witness}, t \in Times :
       RollingKey(Cycle(t), W) \in DOMAIN d.minerRollingTrie
  /\ \A f \in (DOMAIN d) \ {"minerRollingTrie"} : d[f] # EmptyTrie

\* C17: after SetWitnesses(list), GetWitnesses returns list, in the same
\* order, until the next SetWitnesses, whatever other calls are made in
\* between; SetWitnesses changes no trie but the cycle trie.
C17_GetWitnessesReturnsLatest ==
  [][/\ last'.op = "SetWitnesses"
          => /\ last'.err = ErrNil
             /\ GetWitnesses(d') = [witnesses |-> last'.witnesses, err |-> ErrNil]
             /\ \A f \in (DOMAIN d) \ {"cycleTrie"} : d'[f] = d[f]
     /\ last'.op # "SetWitnesses" => GetWitnesses(d') = GetWitnesses(d)
     /\ last'.op = "GetWitnesses"
          => /\ last'.witnesses = GetWitnesses(d).witnesses
             /\ last'.err = GetWitnesses(d).err]_vars

\* C17 witness: GetWitnesses has returned a list whose RLP has a two-byte
\* length, set after other lists and followed by other calls.
C17_Witness ==
  /\ IsCall("GetWitnesses") /\ last.err = ErrNil
  /\ last.witnesses = WitnessCycle(LongerListLen)
  /\ d.cycleTrie[WitnessKey][1] = 249
  /\ d.masternodeTrie # EmptyTrie /\ d.voteTrie # EmptyTrie
  /\ d.minerRollingTrie # EmptyTrie

\* C18 as claimed: a successful Delegate, UnDelegate or Unregister that
\* changes the vote trie or the cache trie also changes the vote-count
\* trie.
C18_VoteCntFollowsVotes ==
  (/\ last.op \in {"Delegate", "UnDelegate", "Unregister"}
   /\ last.err = ErrNil
   /\ (d.voteTrie # pre.voteTrie \/ d.cacheTrie # pre.cacheTrie))
    => d.voteCntTrie # pre.voteCntTrie

\* C19 as claimed: right after Register of a masternode with ID i and
\* account A, Delegate(D, A) returns no error for every delegator D, and
\* Unregister(A) leaves no masternode entry under i.
C19_RegisteredIsFound ==
  [][last.op = "Register"
       => /\ (last'.op = "Delegate" /\ last'.masternode = last.account)
               => last'.err = ErrNil
          /\ (last'.op = "Unregister" /\ last'.masternode = last.account)
               => last.id \notin DOMAIN d'.masternodeTrie]_vars

\* C20: a Rolling call with both timestamps in cycle c writes the stored
\* count of (c, witness) plus one when there is one and 1 when there is
\* none, whatever entries other witnesses and other cycles have.
C20_SameCycleCount ==
  (IsCall("Rolling") /\ SameCycle)
    => MintCnt(d, Cycle(last.currentBlockTime), last.witness)
         = IF LastRollingKey \in DOMAIN pre.minerRollingTrie
             THEN Uint64(pre.minerRollingTrie[LastRollingKey]) + 1
             ELSE 1

\* C20 witness: a witness mints its first block of a cycle in which another
\* witness has a count, having itself a count of 2 in another cycle.
C20_Witness ==
  /\ IsCall("Rolling") /\ SameCycle
  /\ LastRollingKey \notin DOMAIN pre.minerRollingTrie
  /\ MintCnt(d, Cycle(last.currentBlockTime), last.witness) = 1
  /\ \E W \in Addr \ {last.witness} :
       RollingKey(Cycle(last.currentBlockTime), W) \in DOMAIN pre.minerRollingTrie
  /\ \E t \in Times :
       /\ Cycle(t) # Cycle(last.currentBlockTime)
       /\ MintCnt(pre, Cycle(t), last.witness) = 2

\* A successful Delegate(D, M2) by a delegator D that voted for another
\* masternode before the call.
Redelegated ==
  /\ IsCall("Delegate") /\ last.err = ErrNil
  /\ TryGet(pre.voteTrie, last.delegator) \notin {Nil, last.masternode}

\* C21: when D votes for M1 and Delegate(D, M2) succeeds with M2 # M1, the
\* cache trie has no entry under (M1, D) afterwards and has the entry
\* (M2, D) -> D, and the cache and vote entries of every other delegator
\* are as they were before the call.
C21_RedelegateMovesCacheEntry ==
  Redelegated
    => LET D == last.delegator
           M1 == pre.voteTrie[D]
           M2 == last.masternode
       IN /\ CacheKey(M1, D) \notin DOMAIN d.cacheTrie
          /\ TryGet(d.cacheTrie, CacheKey(M2, D)) = D
          /\ EntriesUnchangedExcept("cacheTrie", {CacheKey(M1, D), CacheKey(M2, D)})
          /\ EntriesUnchangedExcept("voteTrie", {D})

\* C21 witness: a delegator moves its vote away from a masternode that
\* another delegator votes for too.
C21_Witness ==
  /\ Redelegated
  /\ \E D2 \in Addr \ {last.delegator} :
       /\ TryGet(pre.voteTrie, D2) = pre.voteTrie[last.delegator]
       /\ CacheKey(pre.voteTrie[last.delegator], D2) \in DOMAIN d.cacheTrie
  /\ CacheKey(pre.voteTrie[last.delegator], last.delegator)
       \notin DOMAIN d.cacheTrie

\* C22: UnDelegate(D, M) with no masternode entry under M returns the
\* invalid-target error and leaves the six tries as they were; an
\* UnDelegate(D, M) that returns no error leaves no vote entry of D and no
\* cache entry under (M, D).
C22_UnDelegateTargetAndEffect ==
  IsCall("UnDelegate")
    => /\ last.masternode \notin DOMAIN pre.masternodeTrie
            => (last.err = ErrInvalidUnDelegate /\ d = pre)
       /\ last.err = ErrNil
            => /\ last.delegator \notin DOMAIN d.voteTrie
               /\ CacheKey(last.masternode, last.delegator)
                    \notin DOMAIN d.cacheTrie

\* C22 witness: UnDelegate names an account that is registered under an ID
\* of another shape only, by a delegator that holds a vote.
C22_Witness ==
  /\ IsCall("UnDelegate")
  /\ last.err = ErrInvalidUnDelegate
  /\ TryGet(pre.masternodeTrie, OtherID) = last.masternode
  /\ last.delegator \in DOMAIN pre.voteTrie
  /\ d = pre

\* C23: Unregister(M) leaves every cache entry (M', D) and every vote of a
\* delegator D for M', M' # M, as it was before the call, whether M' sorts
\* before or after M.
C23_UnregisterKeepsOthers ==
  IsCall("Unregister")
    => \A M2 \in Addr \ {last.masternode}, D \in Addr :
         /\ TryGet(d.cacheTrie, CacheKey(M2, D))
              = TryGet(pre.cacheTrie, CacheKey(M2, D))
         /\ TryGet(pre.voteTrie, D) = M2 => TryGet(d.voteTrie, D) = M2

\* C23 witness: Unregister(M) removes a delegator of M while the iterator
\* started at M also comes to the cache entry of a masternode that sorts
\* after M, which stays with its vote.
C23_Witness ==
  /\ IsCall("Unregister")
  /\ CacheKeysOf(pre, last.masternode) # {}
  /\ CacheKeysOf(d, last.masternode) = {}
  /\ \E M2 \in Addr, D \in Addr :
       /\ BytesLess(last.masternode, M2)
       /\ CacheKey(M2, D) \in DOMAIN pre.cacheTrie
       /\ CacheKey(M2, D) \in DOMAIN d.cacheTrie
       /\ TryGet(d.voteTrie, D) = M2

\* C24 as claimed: every RevertToSnapShot(s), also one made after an earlier
\* RevertToSnapShot(s) and further calls, leaves the cycle, cache,
\* masternode, vote and rotation tries with the contents they had when s
\* was taken.
C24_SnapshotSurvivesRevert ==
  IsCall("RevertToSnapShot") => Copy(d) = taken[1]

\* C25 as claimed: the combined root Root() returns for the manager is the
\* combined root of the checkpoint ProtocolAtomic() builds from the same
\* six tries.
C25_RootIsCheckpointRoot ==
  IsCall("Root") => last.h = AtomicRoot(ProtocolAtomic(d))

====
